---- MODULE Spec2Model ----
(***************************************************************************)
(* A model of backup_lib.py (class Backup): construction and validation,   *)
(* the plan builder rsync_cmds and the executor run_rsync_cmds, together   *)
(* with the module-level list _fixed_rsync_args that they share.           *)
(*                                                                         *)
(* Python strings are modelled as sequences of one-character strings, so   *)
(* that str.startswith and os.path.join are computed as the code computes  *)
(* them.  One Python process runs at a time; it holds at most one Backup   *)
(* object in the driver's variable b.  The object is built by the          *)
(* constructor or by Backup.FromBackupDrive, which scans a drive directory *)
(* whose entry names are parsed and formatted with _DATE_FORMAT.           *)
(***************************************************************************)
EXTENDS Naturals, Sequences, FiniteSets

VARIABLES
    fixedArgs,   \* the module-level list _fixed_rsync_args of the process
    b,           \* the driver's Backup object (live = FALSE: none yet)
    lastCall,    \* the call made by the last step: op, dry_run, kind of order spec
    outcome,     \* how that call ended: "ok", "AssertionError", "raised", "killed"
    cmds,        \* the list returned by the last rsync_cmds call (<<>> if it raised)
    pc,          \* position inside run_rsync_cmds: "idle", "loop", "in_call", "done"
    i,           \* number of commands of the current run whose proc.call returned
    runExits,    \* exit statuses of the proc.call invocations of the current run
    ncalls,      \* rsync_cmds calls made by this process
    dstExists,   \* Destination exists (as a directory)
    dstContent,  \* source files (relative paths) present in Destination
    logFile,     \* Destination holds rsync_backup.log
    marker,      \* Destination holds BACKUP_DONE
    invoked,     \* sources of the commands the current run has started, in order
    drive,       \* entries of the drive directory besides today's: name -> kind
    cwd          \* working directory of the process: "drive" or "other"

vars == <<fixedArgs, b, lastCall, outcome, cmds, pc, i, runExits, ncalls,
          dstExists, dstContent, logFile, marker, invoked, drive, cwd>>

fsVars == <<dstExists, dstContent, logFile, marker>>

\* What no call of the program changes: the other entries of the drive
\* directory and the working directory
envVars == <<drive, cwd>>

(***************************************************************************)
(* Bounds                                                                  *)
(***************************************************************************)
MaxOrder == 3   \* longest backup_order the driver passes
MaxCalls == 2   \* rsync_cmds calls one process makes

(***************************************************************************)
(* Strings and paths                                                       *)
(***************************************************************************)
Slash == <<"/">>

\* str.startswith
StartsWith(s, p) == Len(p) <= Len(s) /\ SubSeq(s, 1, Len(p)) = p

EndsWith(s, p) == Len(p) <= Len(s) /\ SubSeq(s, Len(s) - Len(p) + 1, Len(s)) = p

\* posixpath.join(a, p) for one string p
join(a, p) ==
    IF StartsWith(p, Slash) THEN p
    ELSE IF a = <<>> \/ EndsWith(a, Slash) THEN a \o p
    ELSE a \o Slash \o p

\* The remainder token "..."
Remainder == <<".", ".", ".">>

\* abspath of the arguments the driver passes
SrcRoot == <<"/", "s">>
DstDir == <<"/", "b">>
PrevDir == <<"/", "p">>
DriveDir == <<"/", "v">>

\* The content of SourceRoot: a directory d with two files, and two files
\* at top level, one of which ("d1") has the directory's name as a raw
\* string prefix.
D == <<"d">>
DF == <<"d", "/", "f">>
DG == <<"d", "/", "g">>
D1 == <<"d", "1">>
E == <<"e">>
Missing == <<"x">>

SourceFiles == {DF, DG, D1, E}
SourceDirs == {D}

\* os.path.exists restricted to SourceRoot
exists(path) ==
    \/ path = SrcRoot
    \/ \E r \in SourceFiles \cup SourceDirs : path = join(SrcRoot, r)

\* The entries a driver passes in backup_order
Tokens == {D, DF, D1, Missing, Remainder}
Orders == UNION {[1..n -> Tokens] : n \in 0..MaxOrder}
DefaultOrder == <<Remainder>>
Prevs == {<<>>, PrevDir}   \* <<>> models None

(***************************************************************************)
(* The drive directory and _DATE_FORMAT                                    *)
(***************************************************************************)
\* Dates are the days 1..MaxDate of one month; a drive holds at most
\* MaxEntries entries besides today's directory
MaxDate == 4
MaxEntries == 3

Dates == 1..MaxDate

\* date.today()
Today == 3

\* The part of a name after the day ("-%b-%Y"), kept as one element
MonthYear == "-Jan-2000"

DigitChars == <<"0", "1", "2", "3", "4", "5", "6", "7", "8", "9">>
IsDigit(c) == \E v \in 1..Len(DigitChars) : DigitChars[v] = c
DigitVal(c) == (CHOOSE v \in 1..Len(DigitChars) : DigitChars[v] = c) - 1

\* t.strftime(_DATE_FORMAT): the day is written with two digits
strftime(t) ==
    <<DigitChars[(t \div 10) + 1], DigitChars[(t % 10) + 1], MonthYear>>

RECURSIVE strip(_)
\* str.strip()
strip(s) ==
    IF s # <<>> /\ Head(s) = " " THEN strip(Tail(s))
    ELSE IF s # <<>> /\ s[Len(s)] = " " THEN strip(SubSeq(s, 1, Len(s) - 1))
    ELSE s

\* datetime.strptime(s, _DATE_FORMAT): %d takes one or two digits; 0 models
\* the ValueError
strptime(s) ==
    LET day(v) == IF v \in 1..31 THEN v ELSE 0 IN
    IF Len(s) = 3 /\ IsDigit(s[1]) /\ IsDigit(s[2]) /\ s[3] = MonthYear
    THEN day(10 * DigitVal(s[1]) + DigitVal(s[2]))
    ELSE IF Len(s) = 2 /\ IsDigit(s[1]) /\ s[2] = MonthYear
    THEN day(DigitVal(s[1]))
    ELSE 0

\* Names of drive entries: what the program itself wrote on other days, a
\* directory a user named by hand without the leading zero, and a name
\* that is no date
Unpadded(t) == <<DigitChars[t + 1], MonthYear>>
NotADate == <<"n">>
DriveNames ==
    {strftime(t) : t \in Dates \ {Today}} \cup {Unpadded(Today - 1), NotADate}

Kinds == {"dir", "file"}
NoEntries == [n \in {} |-> "dir"]
Drives ==
    UNION {[S -> Kinds] :
               S \in {T \in SUBSET DriveNames : Cardinality(T) <= MaxEntries}}
Cwds == {"drive", "other"}

\* dst of FromBackupDrive: join(drive, today's name)
TodayDir == join(DriveDir, strftime(Today))

(***************************************************************************)
(* _fixed_rsync_args and the arguments appended to it                      *)
(***************************************************************************)
Opt(name) == [opt |-> name, val |-> <<>>]
ExcludeArg(path) == [opt |-> "--exclude", val |-> path]
LinkDestArg(path) == [opt |-> "--link-dest", val |-> path]
DryRunArg == Opt("--dry-run")

InitialFixedArgs ==
    << Opt("-av"), Opt("--no-D"), Opt("--checksum"), Opt("--out-format") >>

(***************************************************************************)
(* The order specs a caller can pass, by what is wrong with them           *)
(***************************************************************************)
RemainderNotLast(order) ==
    \E k \in 1..Len(order) : order[k] = Remainder /\ k # Len(order)

NamesMissingPath(order) ==
    \E k \in 1..Len(order) :
        order[k] # Remainder /\ order[k] \notin (SourceFiles \cup SourceDirs)

\* Recorded with a constructor call, in place of the argument itself
OrderKind(order) ==
    IF RemainderNotLast(order) /\ NamesMissingPath(order) THEN "misplaced and missing"
    ELSE IF RemainderNotLast(order) THEN "remainder misplaced"
    ELSE IF NamesMissingPath(order) THEN "missing path"
    ELSE "well-formed"

InvalidKinds == {"misplaced and missing", "remainder misplaced", "missing path"}

(***************************************************************************)
(* Backup.__init__                                                         *)
(***************************************************************************)
\* OrderEntryCheck without the assert on the position of "..."
OrderEntryCheckAnyPosition(order, k) ==
    IF order[k] = Remainder
    THEN "ok"
    ELSE IF exists(join(SrcRoot, order[k])) THEN "ok" ELSE "file does not exist"

\* The assert that entry k of backup_order passes, or the one it fails
OrderEntryCheck(order, k) ==
    IF order[k] = Remainder
    THEN IF k = Len(order) THEN "ok" ELSE "remainder not last"
    ELSE IF exists(join(SrcRoot, order[k])) THEN "ok" ELSE "file does not exist"

RECURSIVE OrderLoop(_, _)
\* The loop over backup_order from entry k on: the first assert that fails
OrderLoop(order, k) ==
    IF k > Len(order) THEN "ok"
    ELSE IF OrderEntryCheck(order, k) # "ok" THEN OrderEntryCheck(order, k)
    ELSE OrderLoop(order, k + 1)

\* clean_backup_order is a copy of backup_order
CleanBackupOrder(order) == [k \in 1..Len(order) |-> order[k]]

\* The branch on dst: create it, or assert that it holds no completed backup
DstCheck ==
    IF ~dstExists THEN "mkdir"
    ELSE IF marker THEN "already completed"
    ELSE "ok"

NoBackup ==
    [live |-> FALSE, dst |-> <<>>, prev_backup |-> <<>>, backup_order |-> <<>>]

NewBackup(dst, order, prev) ==
    [live |-> TRUE, dst |-> dst, prev_backup |-> prev,
     backup_order |-> CleanBackupOrder(order)]

\* os.path.isdir of an absolute path
isdir(path) ==
    \/ path \in {SrcRoot, PrevDir, DriveDir}
    \/ path \in {DstDir, TodayDir} /\ dstExists
    \/ \E n \in DOMAIN drive : drive[n] = "dir" /\ path = join(DriveDir, n)

\* The constructor creating dst before it validates its arguments
InitStepsMkdirFirst(order, prev) ==
    IF OrderLoop(order, 1) # "ok"
    THEN [outcome |-> OrderLoop(order, 1), mkdir |-> ~dstExists]
    ELSE IF ~(prev = <<>> \/ isdir(prev))
    THEN [outcome |-> "prev_backup is not a dir", mkdir |-> ~dstExists]
    ELSE IF DstCheck = "already completed"
    THEN [outcome |-> "already completed", mkdir |-> FALSE]
    ELSE [outcome |-> "ok", mkdir |-> DstCheck = "mkdir"]

\* The statements of __init__ in their order: the asserts on backup_order
\* and prev_backup, then the branch on dst.  outcome is "ok" or names the
\* assert that failed; mkdir tells whether os.mkdir(dst) ran.
InitSteps(order, prev) ==
    IF OrderLoop(order, 1) # "ok"
    THEN [outcome |-> OrderLoop(order, 1), mkdir |-> FALSE]
    ELSE IF ~(prev = <<>> \/ isdir(prev))
    THEN [outcome |-> "prev_backup is not a dir", mkdir |-> FALSE]
    ELSE IF DstCheck = "already completed"
    THEN [outcome |-> "already completed", mkdir |-> FALSE]
    ELSE [outcome |-> "ok", mkdir |-> DstCheck = "mkdir"]

Idle == pc \in {"idle", "done"}

\* Backup(src, dst, prev_backup, backup_order); outcome is "ok" or names the
\* assert that failed.  cmds, i and runExits describe the last rsync_cmds or
\* run_rsync_cmds call and are cleared by a constructor call.
\* op names the entry point the driver called.
BackupInit(op, dst, order, prev) ==
    /\ Idle
    /\ lastCall' = [op |-> op, dry |-> FALSE, arg |-> OrderKind(order)]
    /\ pc' = "idle"
    /\ cmds' = <<>>
    /\ i' = 0
    /\ runExits' = <<>>
    /\ invoked' = <<>>
    /\ UNCHANGED <<fixedArgs, ncalls, dstContent, logFile, marker>>
    /\ UNCHANGED envVars
    /\ \E r \in {InitSteps(order, prev)} :
        /\ outcome' = r.outcome
        /\ dstExists' = (dstExists \/ r.mkdir)
        /\ b' = IF r.outcome = "ok" THEN NewBackup(dst, order, prev) ELSE b

Construct(order, prev) == BackupInit("Backup", DstDir, order, prev)

(***************************************************************************)
(* Backup.FromBackupDrive                                                  *)
(***************************************************************************)
\* os.path.isdir(d) for a name as os.listdir returns it: the name is
\* resolved against the working directory, not against the drive (the
\* other working directory holds no entry of such a name)
isdirRelative(d) == cwd = "drive" /\ isdir(join(DriveDir, d))

\* os.listdir(drive)
Listing == DOMAIN drive \cup (IF dstExists THEN {strftime(Today)} ELSE {})

RECURSIVE ScanLoop(_, _)
\* The loop "for d in os.listdir(drive)" over the names still to visit;
\* most_recent = 0 models None
ScanLoop(names, most_recent) ==
    IF names = {} THEN most_recent
    ELSE LET d == CHOOSE x \in names : TRUE
             t == strptime(strip(d))
         IN  ScanLoop(names \ {d},
                 IF ~isdirRelative(d) THEN most_recent
                 ELSE IF t = 0 THEN most_recent         \* except: continue
                 ELSE IF t = Today THEN most_recent
                 ELSE IF most_recent = 0 \/ t > most_recent THEN t
                 ELSE most_recent)

\* most_recent_path; <<>> models None
MostRecentPath(most_recent) ==
    IF most_recent = 0 THEN <<>>
    ELSE join(DriveDir, strftime(most_recent))

\* Backup.FromBackupDrive(src, drive) with the default backup_order
FromBackupDrive ==
    BackupInit("FromBackupDrive", TodayDir, DefaultOrder,
               MostRecentPath(ScanLoop(Listing, 0)))

(***************************************************************************)
(* Backup.rsync_cmds                                                       *)
(***************************************************************************)
\* An element of excluded_files: a string, or (after append(visited)) a list
PathItem(p) == [isList |-> FALSE, path |-> p]
ListItem == [isList |-> TRUE, path |-> <<>>]

RECURSIVE ExcludedLoop(_, _, _, _)
\* The loop "for v in visited" from its j-th element on
ExcludedLoop(f, visited, j, excl) ==
    IF j > Len(visited) THEN excl
    ELSE LET v == visited[j] IN
         IF f = Remainder
         THEN ExcludedLoop(f, visited, j + 1,
                           [n \in 1..Len(visited) |-> PathItem(visited[n])])
         ELSE IF StartsWith(v, f)
         THEN ExcludedLoop(f, visited, j + 1, Append(excl, ListItem))
         ELSE IF StartsWith(f, v)
         THEN ExcludedLoop(f, visited, j + 1, excl)    \* continue
         ELSE ExcludedLoop(f, visited, j + 1, excl)    \* pass

ExcludedFiles(f, visited) == ExcludedLoop(f, visited, 1, <<>>)

RECURSIVE AppendExcludes(_, _, _)
\* The loop "for ex in excluded_files" from its k-th element on;
\* os.path.join raises on an element that is a list
AppendExcludes(args, items, k) ==
    IF k > Len(items) THEN [raised |-> FALSE, args |-> args]
    ELSE IF items[k].isList THEN [raised |-> TRUE, args |-> args]
    ELSE AppendExcludes(Append(args, ExcludeArg(join(SrcRoot, items[k].path))),
                        items, k + 1)

\* "args = _fixed_rsync_args" binds args to the module-level list itself
BaseArgs(shared) == shared

\* append and += on args change that list in place
SharedAfter(shared, args) == args

LinkArgs(args, prev) ==
    IF prev # <<>> THEN Append(args, LinkDestArg(prev)) ELSE args

DryArgs(args, dry) ==
    IF dry THEN Append(args, DryRunArg) ELSE args

\* Every unit copying the whole SourceRoot
UnitSourceWholeRoot(f) == SrcRoot \o Slash

\* src of the command for entry f
UnitSource(f) ==
    IF f # Remainder THEN join(SrcRoot, f) ELSE SrcRoot \o Slash

RECURSIVE RsyncCmdsLoop(_, _, _, _, _)
\* The loop "for f in self.backup_order" from its k-th entry on, with the
\* commands built so far and the module-level list as it stands
RsyncCmdsLoop(self, dry, k, cs, shared) ==
    IF k > Len(self.backup_order)
    THEN [raised |-> FALSE, cmds |-> cs, shared |-> shared]
    ELSE LET f == self.backup_order[k]
             visited == SubSeq(self.backup_order, 1, k - 1)
             ex == AppendExcludes(BaseArgs(shared), ExcludedFiles(f, visited), 1)
         IN  IF ex.raised
             THEN [raised |-> TRUE, cmds |-> <<>>,
                   shared |-> SharedAfter(shared, ex.args)]
             ELSE LET args == DryArgs(LinkArgs(ex.args, self.prev_backup), dry)
                      cmd == [args |-> args, src |-> UnitSource(f), dst |-> self.dst]
                  IN  RsyncCmdsLoop(self, dry, k + 1, Append(cs, cmd),
                                    SharedAfter(shared, args))

rsync_cmds(self, dry, shared) == RsyncCmdsLoop(self, dry, 1, <<>>, shared)

CallRsyncCmds(dry) ==
    /\ Idle
    /\ b.live
    /\ ncalls < MaxCalls
    /\ LET r == rsync_cmds(b, dry, fixedArgs) IN
        /\ fixedArgs' = r.shared
        /\ cmds' = r.cmds
        /\ outcome' = IF r.raised THEN "raised" ELSE "ok"
    /\ lastCall' = [op |-> "rsync_cmds", dry |-> dry, arg |-> "none"]
    /\ ncalls' = ncalls + 1
    /\ pc' = "idle"
    /\ i' = 0
    /\ runExits' = <<>>
    /\ invoked' = <<>>
    /\ UNCHANGED <<b, dstExists, dstContent, logFile, marker>>
    /\ UNCHANGED envVars

(***************************************************************************)
(* The external tool                                                       *)
(***************************************************************************)
\* path is root or lies below it (whole path components)
Under(path, root) == path = root \/ StartsWith(path, root \o Slash)

StripSlash(p) == IF EndsWith(p, Slash) THEN SubSeq(p, 1, Len(p) - 1) ELSE p

Excluded(cmd) == {cmd.args[k].val : k \in {n \in 1..Len(cmd.args) : cmd.args[n].opt = "--exclude"}}

HasOpt(cmd, name) == \E k \in 1..Len(cmd.args) : cmd.args[k].opt = name

\* The source files a command transfers: its source subtree minus its exclusions
Scope(cmd) ==
    {r \in SourceFiles :
        /\ Under(join(SrcRoot, r), StripSlash(cmd.src))
        /\ \A x \in Excluded(cmd) : ~Under(join(SrcRoot, r), x)}

\* What a command that exits with status st adds to Destination
Effect(cmd, st) ==
    IF st = 0 /\ ~HasOpt(cmd, "--dry-run") THEN Scope(cmd) ELSE {}

ExitStatuses == {0, 1}

(***************************************************************************)
(* Backup.run_rsync_cmds                                                   *)
(***************************************************************************)
\* Opens the log file, then builds the commands
RunStart(dry) ==
    /\ Idle
    /\ b.live
    /\ dstExists
    /\ ncalls < MaxCalls
    /\ logFile' = TRUE
    /\ LET r == rsync_cmds(b, dry, fixedArgs) IN
        /\ fixedArgs' = r.shared
        /\ cmds' = r.cmds
        /\ outcome' = IF r.raised THEN "raised" ELSE "ok"
        /\ pc' = IF r.raised THEN "idle" ELSE "loop"
    /\ lastCall' = [op |-> "run_rsync_cmds", dry |-> dry, arg |-> "none"]
    /\ ncalls' = ncalls + 1
    /\ i' = 0
    /\ runExits' = <<>>
    /\ invoked' = <<>>
    /\ UNCHANGED <<b, dstExists, dstContent, marker>>
    /\ UNCHANGED envVars

\* The loop taking the commands from the end of the list
NextIndexFromEnd(done, total) == total - done

\* "for cmd in cmds": the index of the command taken after done iterations
NextIndex(done, total) == done + 1

\* Writes the command to the log and starts proc.call
CallStart ==
    /\ pc = "loop"
    /\ i < Len(cmds)
    /\ pc' = "in_call"
    /\ invoked' = Append(invoked, cmds[NextIndex(i, Len(cmds))].src)
    /\ UNCHANGED <<fixedArgs, b, lastCall, outcome, cmds, i, runExits, ncalls,
                   dstExists, dstContent, logFile, marker>>
    /\ UNCHANGED envVars

\* proc.call returns; its status is dropped
CallReturn(st) ==
    /\ pc = "in_call"
    /\ dstContent' = dstContent \cup Effect(cmds[NextIndex(i, Len(cmds))], st)
    /\ runExits' = Append(runExits, st)
    /\ i' = i + 1
    /\ pc' = "loop"
    /\ UNCHANGED <<fixedArgs, b, lastCall, outcome, cmds, ncalls,
                   dstExists, logFile, marker, invoked>>
    /\ UNCHANGED envVars

\* After the loop: touch BACKUP_DONE
FinishRun ==
    /\ pc = "loop"
    /\ i = Len(cmds)
    /\ marker' = TRUE
    /\ pc' = "done"
    /\ UNCHANGED <<fixedArgs, b, lastCall, outcome, cmds, i, runExits, ncalls,
                   dstExists, dstContent, logFile, invoked>>
    /\ UNCHANGED envVars

(***************************************************************************)
(* The process                                                             *)
(***************************************************************************)
\* The process ends (it returns, or it is interrupted anywhere) and the
\* driver is started again: module state is fresh, the file system stays
Restart ==
    /\ fixedArgs' = InitialFixedArgs
    /\ b' = NoBackup
    /\ lastCall' = [op |-> "start", dry |-> FALSE, arg |-> "none"]
    /\ outcome' = IF pc \in {"loop", "in_call"} THEN "killed" ELSE "ok"
    /\ cmds' = <<>>
    /\ pc' = "idle"
    /\ i' = 0
    /\ runExits' = <<>>
    /\ ncalls' = 0
    /\ invoked' = <<>>
    /\ UNCHANGED fsVars
    /\ UNCHANGED envVars

\* A fresh process and no Destination yet
InitProcess ==
    /\ fixedArgs = InitialFixedArgs
    /\ b = NoBackup
    /\ lastCall = [op |-> "start", dry |-> FALSE, arg |-> "none"]
    /\ outcome = "ok"
    /\ cmds = <<>>
    /\ pc = "idle"
    /\ i = 0
    /\ runExits = <<>>
    /\ ncalls = 0
    /\ dstExists = FALSE
    /\ dstContent = {}
    /\ logFile = FALSE
    /\ marker = FALSE
    /\ invoked = <<>>

\* The driver is given src and dst: no drive directory is involved
Init ==
    /\ InitProcess
    /\ drive = NoEntries
    /\ cwd = "other"

\* The command-line driver and the tests: a process builds one Backup, then
\* asks it for its commands or runs it (a failed construction may be tried
\* again)
DriverConstruct(order, prev) == ~b.live /\ Construct(order, prev)

Next ==
    \/ \E order \in Orders, prev \in Prevs : DriverConstruct(order, prev)
    \/ \E dry \in BOOLEAN : CallRsyncCmds(dry)
    \/ \E dry \in BOOLEAN : RunStart(dry)
    \/ CallStart
    \/ \E st \in ExitStatuses : CallReturn(st)
    \/ FinishRun
    \/ Restart

Spec == Init /\ [][Next]_vars

\* A process that uses the class as a library: it builds Backup objects with
\* Backup(src, dst, backup_order=...), one after the other, and asks them
\* for their commands without running them
LibraryConstruct(order) == ncalls < MaxCalls /\ Construct(order, <<>>)

NextPlan ==
    \/ \E order \in Orders : LibraryConstruct(order)
    \/ \E dry \in BOOLEAN : CallRsyncCmds(dry)
    \/ Restart

PlanSpec == Init /\ [][NextPlan]_vars

\* The driver is given src and a drive directory: a process builds its
\* Backup with FromBackupDrive and runs it
DriverFromBackupDrive == ~b.live /\ FromBackupDrive

InitDrive ==
    /\ InitProcess
    /\ drive \in Drives
    /\ cwd \in Cwds

NextDrive ==
    \/ DriverFromBackupDrive
    \/ \E dry \in BOOLEAN : RunStart(dry)
    \/ CallStart
    \/ \E st \in ExitStatuses : CallReturn(st)
    \/ FinishRun
    \/ Restart

DriveSpec == InitDrive /\ [][NextDrive]_vars

(***************************************************************************)
(* Notions the properties below are stated with                            *)
(***************************************************************************)
\* The last step called rsync_cmds (directly, or from run_rsync_cmds) on b
PlanBuilt == lastCall.op \in {"rsync_cmds", "run_rsync_cmds"}

PlanReturned == PlanBuilt /\ outcome = "ok"

AllZero(sts) == \A k \in 1..Len(sts) : sts[k] = 0

\* Commands of the current run whose invocation has started
Started == IF pc = "in_call" THEN i + 1 ELSE i

HasRemainder(order) == \E k \in 1..Len(order) : order[k] = Remainder

EndsWithRemainder(order) == Len(order) > 0 /\ order[Len(order)] = Remainder

\* The files the order spec asks to back up
ListedFiles(order) ==
    {r \in SourceFiles :
        \/ HasRemainder(order)
        \/ \E k \in 1..Len(order) : Under(r, order[k])}

\* The units of a command list whose effective scope holds file r
UnitsCovering(cs, r) == {n \in 1..Len(cs) : r \in Scope(cs[n])}

\* Entry k is a concrete path that an earlier entry covers (an ancestor of
\* it, or the same path)
CoveredBefore(order, k) ==
    /\ order[k] # Remainder
    /\ \E j \in 1..(k - 1) : order[j] # Remainder /\ Under(order[k], order[j])

\* The earlier entries that are descendants of the concrete entry k
DescendantsBefore(order, k) ==
    {order[j] : j \in {n \in 1..(k - 1) : order[n] # order[k] /\ Under(order[n], order[k])}}

(***************************************************************************)
(* Properties                                                              *)
(***************************************************************************)
\* C1: when run_rsync_cmds has returned, the completion marker is in
\* Destination only if every invocation of that run exited with status zero.
C1_MarkerOnlyIfAllUnitsSucceeded ==
    pc = "done" => (marker => AllZero(runExits))

\* C2: no invocation of the external tool is in progress against a
\* Destination that holds the completion marker.
C2_NoInvocationOnCompletedDestination ==
    pc = "in_call" => ~marker

\* C3: once the unit at position k of the plan has exited nonzero, no unit
\* at a later position is started in that run.
C3_NoUnitAfterFailedUnit ==
    \A k \in 1..Len(runExits) : runExits[k] # 0 => Started <= k

\* C4: while a run has units that have not finished, Destination holds no
\* completion marker and a fresh Backup construction against it is accepted.
C4_UnfinishedRunLeavesNoMarker ==
    (pc \in {"loop", "in_call"} /\ i < Len(cmds))
        => (~marker /\ DstCheck # "already completed")

\* C5: after rsync_cmds, every file the order spec lists is in the effective
\* scope of exactly one returned unit.
C5_EveryListedFileInExactlyOneUnit ==
    (PlanBuilt /\ b.live)
        => \A r \in ListedFiles(b.backup_order) :
               Cardinality(UnitsCovering(cmds, r)) = 1

\* C6: after a run (not a dry run) for an order spec that ends with the
\* remainder token has returned with every unit exiting zero, Destination
\* holds exactly the files of SourceRoot.
C6_DestinationEqualsSource ==
    (/\ pc = "done"
     /\ lastCall.op = "run_rsync_cmds"
     /\ ~lastCall.dry
     /\ AllZero(runExits)
     /\ EndsWithRemainder(b.backup_order))
        => dstContent = SourceFiles

\* C7: an entry that an earlier entry covers (its ancestor, or the same
\* path) contributes no unit: no returned command has it as its source.
C7_CoveredEntryEmitsNoUnit ==
    PlanReturned
        => \A k \in 1..Len(b.backup_order) :
               CoveredBefore(b.backup_order, k)
                   => \A n \in 1..Len(cmds) :
                          cmds[n].src # join(SrcRoot, b.backup_order[k])

\* C8: for a concrete entry with earlier descendants, rsync_cmds returns
\* without error a unit for it that excludes exactly those descendants.
C8_AncestorUnitExcludesDescendants ==
    (PlanBuilt /\ b.live)
        => \A k \in 1..Len(b.backup_order) :
               (/\ b.backup_order[k] # Remainder
                /\ ~CoveredBefore(b.backup_order, k)
                /\ DescendantsBefore(b.backup_order, k) # {})
                   => /\ outcome = "ok"
                      /\ \E n \in 1..Len(cmds) :
                            /\ cmds[n].src = join(SrcRoot, b.backup_order[k])
                            /\ Excluded(cmds[n]) =
                                   {join(SrcRoot, v) :
                                       v \in DescendantsBefore(b.backup_order, k)}

\* C9: the unit for the remainder token has the whole SourceRoot as its
\* source and excludes exactly the entries that precede the token.
C9_RemainderUnitExcludesPrecedingEntries ==
    (PlanReturned /\ EndsWithRemainder(b.backup_order))
        => /\ Len(cmds) = Len(b.backup_order)
           /\ cmds[Len(cmds)].src = SrcRoot \o Slash
           /\ Excluded(cmds[Len(cmds)]) =
                  {join(SrcRoot, b.backup_order[k]) :
                      k \in 1..(Len(b.backup_order) - 1)}

\* C10: constructing a Backup with an order spec whose remainder token is
\* not last, or that names a path missing under SourceRoot, fails on the
\* order spec's assert and leaves Destination, the Backup in hand and the
\* executor as they were.
C10_InvalidOrderFailsClosed ==
    [][(lastCall'.op = "Backup" /\ lastCall'.arg \in InvalidKinds)
        => /\ outcome' \in {"remainder not last", "file does not exist"}
           /\ UNCHANGED <<dstExists, dstContent, logFile, marker>>
           /\ b' = b
           /\ pc' = "idle"]_vars

\* C10: a construction has just failed on its order spec while Destination
\* does not exist
C10_Witness ==
    /\ lastCall.op = "Backup"
    /\ lastCall.arg = "remainder misplaced"
    /\ outcome = "remainder not last"
    /\ ~dstExists

(***************************************************************************)
(* Properties of the commands rsync_cmds returns                           *)
(***************************************************************************)
\* How often option name occurs among the arguments of a command
OptCount(cmd, name) ==
    Cardinality({n \in 1..Len(cmd.args) : cmd.args[n].opt = name})

\* The exclusions the rule of entry k asks for: the entries before the
\* remainder token, or the earlier descendants of a concrete entry
OwnExclusions(order, k) ==
    IF order[k] = Remainder
    THEN {join(SrcRoot, order[j]) : j \in 1..(k - 1)}
    ELSE {join(SrcRoot, v) : v \in DescendantsBefore(order, k)}

\* No entry is the remainder token and no two entries are the same path or
\* ancestor and descendant of each other
Unrelated(order) ==
    /\ ~HasRemainder(order)
    /\ \A j, k \in 1..Len(order) : j # k => ~Under(order[j], order[k])

\* Two of the entries are related as raw strings only: one is a string
\* prefix of the other without being its ancestor
HasRawPrefixPair(order) ==
    \E j, k \in 1..Len(order) :
        j # k /\ StartsWith(order[k], order[j]) /\ ~Under(order[k], order[j])

\* C14: for a Backup with the default order spec rsync_cmds returns exactly
\* one command, with the whole SourceRoot as source and no exclusion
\* argument, whatever calls the process made before.
C14_DefaultOrderGivesOneUnexcludedUnit ==
    (PlanReturned /\ b.backup_order = DefaultOrder)
        => /\ Len(cmds) = 1
           /\ cmds[1].src = SrcRoot \o Slash
           /\ OptCount(cmds[1], "--exclude") = 0

\* C15: when the order spec holds no remainder token, no returned unit has
\* the whole SourceRoot as its source: each unit's source is SourceRoot
\* joined with a listed entry, and its scope holds listed files only.
C15_NoRemainderNoRootUnit ==
    (PlanReturned /\ ~HasRemainder(b.backup_order))
        => \A n \in 1..Len(cmds) :
               /\ cmds[n].src # SrcRoot \o Slash
               /\ \E k \in 1..Len(b.backup_order) :
                      cmds[n].src = join(SrcRoot, b.backup_order[k])
               /\ Scope(cmds[n]) \subseteq ListedFiles(b.backup_order)

\* C15: rsync_cmds has returned two or more units for an order spec without
\* remainder token that leaves some source file unlisted
C15_Witness ==
    /\ PlanReturned
    /\ ~HasRemainder(b.backup_order)
    /\ Len(cmds) >= 2
    /\ ListedFiles(b.backup_order) # SourceFiles

\* C16: every returned command carries --link-dest exactly when the Backup
\* has a reference backup (then once, naming that reference), and --dry-run
\* exactly when the call asked for a dry run.
C16_LinkDestAndDryRunAsConfigured ==
    PlanReturned
        => \A n \in 1..Len(cmds) :
               /\ OptCount(cmds[n], "--link-dest")
                      = (IF b.prev_backup = <<>> THEN 0 ELSE 1)
               /\ \A a \in 1..Len(cmds[n].args) :
                      cmds[n].args[a].opt = "--link-dest"
                          => cmds[n].args[a].val = b.prev_backup
               /\ HasOpt(cmds[n], "--dry-run") <=> lastCall.dry

\* C18: for concrete entries that are unrelated as paths, two of which are
\* related as raw strings only, rsync_cmds returns a unit for every entry
\* and no unit excludes anything.
C18_RawPrefixIsNotAncestry ==
    (PlanBuilt /\ b.live /\ ncalls = 1
     /\ Unrelated(b.backup_order) /\ HasRawPrefixPair(b.backup_order))
        => /\ outcome = "ok"
           /\ Len(cmds) = Len(b.backup_order)
           /\ \A n \in 1..Len(cmds) : OptCount(cmds[n], "--exclude") = 0

\* C19: in the first rsync_cmds call of a process, each returned command
\* carries, besides the base options, only what its own entry asks for: the
\* exclusions of its rule, at most one --link-dest and at most one --dry-run.
C19_UnitsOwnTheirArguments ==
    (PlanReturned /\ ncalls = 1)
        => \A n \in 1..Len(cmds) :
               /\ Excluded(cmds[n]) \subseteq OwnExclusions(b.backup_order, n)
               /\ OptCount(cmds[n], "--link-dest") <= 1
               /\ OptCount(cmds[n], "--dry-run") <= 1
               /\ Len(cmds[n].args) <= Len(InitialFixedArgs)
                      + Cardinality(OwnExclusions(b.backup_order, n)) + 2

\* C20: the module-level list _fixed_rsync_args keeps its initial value.
C20_SharedListKeepsInitialValue ==
    fixedArgs = InitialFixedArgs

(***************************************************************************)
(* Properties of run order and of FromBackupDrive                          *)
(***************************************************************************)
\* C13: the commands are returned in the order of their entries in the
\* order spec, run_rsync_cmds starts them in that order, and each one has
\* returned before the next one starts.
C13_UnitsRunInOrderSpecOrder ==
    (PlanReturned /\ b.live)
        => /\ \A m, n \in 1..Len(cmds) :
                  m < n => \E j, k \in 1..Len(b.backup_order) :
                               /\ j < k
                               /\ cmds[m].src = UnitSource(b.backup_order[j])
                               /\ cmds[n].src = UnitSource(b.backup_order[k])
           /\ Len(invoked) <= Len(cmds)
           /\ \A n \in 1..Len(invoked) : invoked[n] = cmds[n].src
           /\ Len(runExits) =
                  (IF pc = "in_call" THEN Len(invoked) - 1 ELSE Len(invoked))

\* C13: a run of two or more units has been carried through
C13_Witness ==
    /\ lastCall.op = "run_rsync_cmds"
    /\ pc = "done"
    /\ Len(invoked) >= 2
    /\ Len(runExits) = Len(invoked)

\* The date a drive entry's name parses to (0: none)
DateOf(n) == strptime(strip(n))

\* The directories of the drive dated strictly earlier than today
EarlierDirs == {n \in DOMAIN drive : drive[n] = "dir" /\ DateOf(n) \in 1..(Today - 1)}

\* The drive of the example: yesterday's backup, a directory whose name is
\* no date, and today's directory
ExampleDrive ==
    /\ dstExists
    /\ drive = [n \in {strftime(Today - 1), NotADate} |-> "dir"]

\* C11: a Backup returned by FromBackupDrive has as reference backup the
\* drive directory with the latest date among those dated strictly earlier
\* than today, and none if there is no such directory.
C11_ReferenceIsLatestEarlierEntry ==
    (lastCall.op = "FromBackupDrive" /\ outcome = "ok")
        => IF EarlierDirs = {}
           THEN b.prev_backup = <<>>
           ELSE \E n \in EarlierDirs :
                    /\ b.prev_backup = join(DriveDir, n)
                    /\ \A m \in EarlierDirs : DateOf(m) <= DateOf(n)

\* C12: FromBackupDrive does not fail because of the other entries of the
\* drive (it fails only on a completed backup in today's directory); for
\* the example drive the reference backup is yesterday's directory.
C12_DriveContentsNeverFail ==
    lastCall.op = "FromBackupDrive"
        => /\ outcome \in {"ok", "already completed"}
           /\ (outcome = "ok" /\ ExampleDrive)
                  => b.prev_backup = join(DriveDir, strftime(Today - 1))

\* C17 as stated: a FromBackupDrive call leaves the drive directory as it
\* was, today's directory included.
C17_ResolutionChangesNothing ==
    [][lastCall'.op = "FromBackupDrive"
           => UNCHANGED <<drive, dstExists, dstContent, logFile, marker>>]_vars

\* C17: a FromBackupDrive call changes no existing entry of the drive and
\* nothing inside today's directory; the one entry it may create is today's
\* directory, which exists afterwards exactly if it existed before or the
\* call returned a Backup.
C17_OnlyTodaysDirectoryIsCreated ==
    [][lastCall'.op = "FromBackupDrive"
           => /\ drive' = drive
              /\ UNCHANGED <<dstContent, logFile, marker>>
              /\ dstExists' = (dstExists \/ outcome' = "ok")]_vars

\* C17: FromBackupDrive has returned a Backup for a drive that holds other
\* entries, and today's directory is there, still empty
C17_Witness ==
    /\ lastCall.op = "FromBackupDrive"
    /\ outcome = "ok"
    /\ DOMAIN drive # {}
    /\ dstExists
    /\ dstContent = {}
    /\ ~logFile

\* The names the scan of FromBackupDrive takes a date from
ScannedNames ==
    {n \in DOMAIN drive : isdirRelative(n) /\ DateOf(n) # 0 /\ DateOf(n) # Today}

\* C21: the reference backup FromBackupDrive arrives at is the path of a
\* directory of the drive: writing the date of a selected name back with
\* the date format gives that name, so the constructor's check of the
\* reference backup does not fail.
C21_ReferencePathIsADriveEntry ==
    lastCall.op = "FromBackupDrive"
        => /\ outcome # "prev_backup is not a dir"
           /\ (outcome = "ok" /\ b.prev_backup # <<>>)
                  => \E n \in ScannedNames :
                         /\ strftime(DateOf(n)) = n
                         /\ b.prev_backup = join(DriveDir, n)
           /\ \A n \in ScannedNames :
                  (\A m \in ScannedNames : DateOf(m) <= DateOf(n))
                      => \E m \in ScannedNames :
                             DateOf(m) = DateOf(n) /\ strftime(DateOf(m)) = m

====
